---- MODULE Spec2Model ----
(***************************************************************************)
(* Model of napari_affinities/widgets/affinities.py: the ModelWidget, its  *)
(* training generator train_affinities, and the generator worker that      *)
(* @thread_worker wraps around it (one worker thread per session, the UI   *)
(* thread running the button callbacks and the queued `yielded` signals).  *)
(***************************************************************************)
EXTENDS Integers, Sequences, FiniteSets, TLC

\* ---------------------------------------------------------------- bounds
MaxSessions == 2    \* sessions one run of the model may start
MaxSteps == 2       \* resumptions one session's generator may take
MaxQueue == 1       \* `yielded` signals queued for the UI thread
MaxClicks == 4      \* button presses and direct calls one run may make
MaxEmissions == 3   \* arrays of one name handed to add_layers in a row
MaxBatch == 3       \* the batch size of one such array

\* ------------------------------------------------------------- constants
None_ == -1         \* Python None in an integer position
NaN == -2           \* float("nan")
OrigWeights == -3   \* the weight source a freshly loaded model carries

Sessions == 1..MaxSessions
Models == {1, 2}
\* a file or url that bioimageio cannot load
CorruptSource == 3
Sources == Models \cup {CorruptSource}

\* self.model.config["mws"]["offsets"], and the axes of the model's first input
ModelCfg(m) ==
    IF m = 1 THEN [ndim |-> 2, noff |-> 2, inAxes |-> <<"b", "c", "y", "x">>]
             ELSE [ndim |-> 3, noff |-> 2, inAxes |-> <<"b", "z", "y", "x">>]

\* ------------------------------------------------------------- commands
NoCmd == [k |-> "none", shape |-> <<>>]
SnapshotCmd == [k |-> "snapshot", shape |-> <<>>]
ArrayCmd(sh) == [k |-> "array", shape |-> sh]
OtherCmd == [k |-> "other", shape |-> <<>>]
StartCmd == [k |-> "start", shape |-> <<>>]

\* shapes of the raw layer's data the Predict button may send
ArrayShapes == {<<2, 2>>, <<1, 2, 2>>, <<2, 2, 2>>}
\* train_widget.raw.value.data: a numpy array, or an array-like that is none
RawPayloads == {ArrayCmd(sh) : sh \in ArrayShapes} \cup {OtherCmd}

\* ------------------------------------------------------------- helpers
Spatial(n) == [i \in 1..n |-> 2]
LastN(seq, n) == SubSeq(seq, Len(seq) - n + 1, Len(seq))
\* ["time", "z", "y", "x"][-ndim:]
SpatialAxes(ndim) == LastN(<<"time", "z", "y", "x">>, ndim)
\* numpy squeeze(): every dimension of size 1 is removed
Squeeze(sh) == SelectSeq(sh, LAMBDA d : d # 1)

Range(f) == {f[i] : i \in DOMAIN f}
RECURSIVE Prod(_)
Prod(sh) == IF sh = <<>> THEN 1 ELSE Head(sh) * Prod(Tail(sh))

NullRes == [it |-> None_, loss |-> None_, arrays |-> <<>>]

\* one named array of a result tuple: (data, {"name", "axes"}, layer_type);
\* data is the array's shape and its values in C order
ArrD(name, kind, axes, shape, data) ==
    [name |-> name, kind |-> kind, axes |-> axes, shape |-> shape, data |-> data]
\* an array the generator yields: its shape is followed, its values are not
Arr(name, kind, axes, shape) == ArrD(name, kind, axes, shape, <<>>)

\* the batch size of the pipeline's arrays
BatchSize == 2
\* the training losses one step may compute
AffLosses == {2}
LsdLosses == {3}

LayerNames == {"Affinities", "sample_aff_pred", "sample_lsd_pred", "raw",
               "aff_target", "aff_mask", "lsd_target", "lsd_mask", "diagnostic"}

\* pipeline.next(snapshot_iteration)[0]: raw, affinity target and mask, and
\* with lsds the descriptor target and mask
PipelineArrays(lsds, ndim, noff) ==
    LET ax == <<"batch", "channel">> \o SpatialAxes(ndim)
        sh(c) == <<BatchSize, c>> \o Spatial(ndim)
    IN  <<Arr("raw", "image", ax, sh(1)), Arr("aff_target", "image", ax, sh(noff)),
          Arr("aff_mask", "image", ax, sh(noff))>>
        \o (IF lsds THEN <<Arr("lsd_target", "image", ax, sh(1)),
                           Arr("lsd_mask", "image", ax, sh(1))>>
                    ELSE <<>>)

\* pipeline.next(snapshot_iteration)[1]: diagnostic arrays, only on request
SnapshotArrays(flag, ndim) ==
    IF flag THEN <<Arr("diagnostic", "labels", <<"batch", "channel">> \o SpatialAxes(ndim),
                       <<BatchSize, 1>> \o Spatial(ndim))>>
            ELSE <<>>

\* what the network may return for one batched input: the expected shape, one
\* channel too many, one spatial dimension too few
OutShapes(cfg) ==
    {<<1, cfg.noff>> \o Spatial(cfg.ndim), <<1, cfg.noff + 1>> \o Spatial(cfg.ndim),
     <<1, cfg.noff>> \o Spatial(cfg.ndim - 1)}

\* a viewer with no layers
EmptyViewer(labels) ==
    [labels |-> labels, layers |-> [n \in LayerNames |-> <<>>],
     data |-> [n \in LayerNames |-> <<>>]]

VARIABLES
    model,      \* self.__model: 0 is None, else a model of Models
    weightSrc,  \* self.model.weights["pytorch_state_dict"].source
    gen,        \* self.__training_generator: 0 is None, else a session
    buttons,    \* the enabled flag of the five buttons
    lsdsBox,    \* train_widget.lsds.value, the LSDs checkbox
    iterLabel,  \* iterations_widget text
    lossLabel,  \* loss_widget text
    viewer,     \* viewer.dims.axis_labels and viewer.layers (name -> shape of
                \* layer.data, name -> values of layer.data in C order)
    uiPc,       \* where the UI thread stands inside snapshot()/predict()
    uiArg,      \* the command that snapshot()/predict() is about to send
    nSessions,  \* sessions started so far
    w,          \* the generator worker of every session
    g,          \* the train_affinities generator of every session
    hist,       \* per session: the step its generator finished last, the
                \* command of the one before, and how many it finished
    yieldQ,     \* `yielded` signals queued for the UI thread
    direct,     \* TRUE once train() was called other than by an enabled button
    clicks,     \* UI callbacks entered so far
    uiErr       \* the exception the last button callback ended with, if any

vars == <<model, weightSrc, gen, buttons, lsdsBox, iterLabel, lossLabel, viewer, uiPc,
          uiArg, nSessions, w, g, hist, yieldQ, direct, clicks, uiErr>>

\* ------------------------------------------------------------- buttons
\* enable_buttons(train=False, pause=False, snapshot=False, predict=False, save=False)
enable_buttons(train, pause, snapshot, predict, save) ==
    [train |-> train, pause |-> pause, snapshot |-> snapshot,
     predict |-> predict, save |-> save]

\* a widget that comes up with Train enabled
InitialButtons_TrainEnabled == enable_buttons(TRUE, FALSE, FALSE, FALSE, FALSE)

\* line 133: self.enable_buttons()
InitialButtons == enable_buttons(FALSE, FALSE, FALSE, FALSE, FALSE)

\* a setter that leaves Pause enabled
ButtonsAfterLoad_KeepPause == enable_buttons(TRUE, TRUE, TRUE, TRUE, TRUE)

\* line 171: self.enable_buttons(train=True, predict=True, snapshot=True, save=True)
ButtonsAfterLoad == enable_buttons(TRUE, FALSE, TRUE, TRUE, TRUE)

\* ------------------------------------------------------ generator worker
\* `overwritten` records that send() replaced a value no step had taken yet
NewWorker ==
    [st |-> "none", abort |-> FALSE, paused |-> FALSE, pauseReq |-> FALSE,
     resumeReq |-> FALSE, incoming |-> NoCmd, cur |-> NoCmd, overwritten |-> FALSE]

NewGen ==
    [pc |-> "none", iteration |-> 0, loss |-> NaN, lsds |-> FALSE, mdl |-> 0,
     opens |-> 0, closes |-> 0, pulls |-> 0, snapshot_iteration |-> FALSE]

\* worker.quit(): only a request, seen at the top of the worker's loop
WQuit(ww, s) == [ww EXCEPT ![s].abort = TRUE]
\* worker.send(value): one slot, the last value sent wins
WSend(ww, s, c) ==
    [ww EXCEPT ![s].incoming = c,
               ![s].overwritten = @ \/ ww[s].incoming # NoCmd]
\* worker.pause(): a request unless already paused
WPause(ww, s) == IF ww[s].paused THEN ww ELSE [ww EXCEPT ![s].pauseReq = TRUE]
\* worker.resume(): a request only if the worker is paused by now
WResume(ww, s) == IF ww[s].paused THEN [ww EXCEPT ![s].resumeReq = TRUE] ELSE ww

\* the record of a finished step: its command, its error if it raised, its yield
Step(cmd, err, res) == [cmd |-> cmd, err |-> err, res |-> res]
NoStep == Step(NoCmd, "none", NullRes)
NoHist == [n |-> 0, trained |-> 0, last |-> NoStep, before |-> "none"]
\* `trained` counts the finished steps that were resumed with None or with
\* "snapshot" and yielded
Record(h, step) ==
    [n |-> h.n + 1,
     trained |-> IF step.err = "" /\ step.cmd.k \in {"none", "snapshot"}
                 THEN h.trained + 1 ELSE h.trained,
     last |-> step, before |-> h.last.cmd.k]

Init ==
    /\ model = 0
    /\ weightSrc = OrigWeights
    /\ gen = 0
    /\ buttons = InitialButtons
    /\ lsdsBox = FALSE
    /\ iterLabel = None_
    /\ lossLabel = NaN
    /\ viewer = EmptyViewer(<<"0", "1">>)
    /\ uiPc = "idle"
    /\ uiArg = NoCmd
    /\ nSessions = 0
    /\ w = [s \in Sessions |-> NewWorker]
    /\ g = [s \in Sessions |-> NewGen]
    /\ hist = [s \in Sessions |-> NoHist]
    /\ yieldQ = <<>>
    /\ direct = FALSE
    /\ clicks = 0
    /\ uiErr = ""

\* ---------------------------------------------------------- UI callbacks
\* a loader that returns a description for whatever it is given
Loadable_Any(src) == TRUE

\* bioimageio.core.load_resource_description(src) returns a model
Loadable(src) == src \in Models

\* model_from_file / model_from_url when the load raises: the exception
\* leaves the callback before the assignment to self.model
LoadModelFails(src) ==
    /\ uiPc = "idle"
    /\ clicks < MaxClicks
    /\ clicks' = clicks + 1
    /\ ~Loadable(src)
    /\ uiErr' = "ModelLoadError"
    /\ UNCHANGED <<lsdsBox, model, weightSrc, gen, buttons, iterLabel, lossLabel, viewer,
                   uiPc, uiArg, nSessions, w, g, hist, yieldQ, direct>>

\* model_from_file / model_from_url when the load succeeds:
\* reset_training_state and the model setter
LoadModel(m) ==
    /\ uiPc = "idle"
    /\ Loadable(m)
    /\ clicks < MaxClicks
    /\ clicks' = clicks + 1
    /\ uiErr' = ""
    /\ w' = IF gen # 0 THEN WQuit(w, gen) ELSE w
    /\ gen' = 0
    /\ iterLabel' = None_
    /\ lossLabel' = NaN
    /\ model' = m
    /\ weightSrc' = OrigWeights
    /\ buttons' = ButtonsAfterLoad
    /\ UNCHANGED <<lsdsBox, viewer, uiPc, uiArg, nSessions, g, hist, yieldQ, direct>>

\* the user ticks the LSDs checkbox (value=False at construction) before the
\* first button is pressed
TickLsds ==
    /\ uiPc = "idle"
    /\ clicks = 0
    /\ ~lsdsBox
    /\ lsdsBox' = TRUE
    /\ UNCHANGED <<model, weightSrc, gen, buttons, iterLabel, lossLabel, viewer,
                   uiPc, uiArg, nSessions, w, g, hist, yieldQ, direct, clicks, uiErr>>

\* train(): start_training_loop() when there is no generator, else resume()
TrainBody ==
    /\ IF gen = 0
       THEN /\ nSessions < MaxSessions
            /\ nSessions' = nSessions + 1
            /\ gen' = nSessions + 1
            /\ w' = [w EXCEPT ![nSessions + 1] = [NewWorker EXCEPT !.st = "loop"]]
            /\ g' = [g EXCEPT ![nSessions + 1] =
                        [NewGen EXCEPT !.pc = "unstarted", !.lsds = lsdsBox]]
       ELSE /\ w' = WResume(w, gen)
            /\ UNCHANGED <<nSessions, gen, g>>
    /\ buttons' = enable_buttons(FALSE, TRUE, TRUE, TRUE, TRUE)

Train(viaButton) ==
    /\ uiPc = "idle"
    /\ clicks < MaxClicks
    /\ clicks' = clicks + 1
    /\ uiErr' = ""
    /\ IF viaButton THEN buttons.train ELSE model = 0
    /\ direct' = (direct \/ ~viaButton)
    /\ TrainBody
    /\ UNCHANGED <<lsdsBox, model, weightSrc, iterLabel, lossLabel, viewer, uiPc, uiArg,
                   hist, yieldQ>>

\* pause_training(): with no generator, None.pause() raises AttributeError
PauseTraining ==
    /\ uiPc = "idle"
    /\ clicks < MaxClicks
    /\ clicks' = clicks + 1
    /\ buttons.pause
    /\ IF gen = 0
       THEN /\ uiErr' = "AttributeError"
            /\ UNCHANGED <<w, buttons>>
       ELSE /\ uiErr' = ""
            /\ w' = WPause(w, gen)
            /\ buttons' = enable_buttons(TRUE, FALSE, TRUE, TRUE, TRUE)
    /\ UNCHANGED <<lsdsBox, model, weightSrc, gen, iterLabel, lossLabel, viewer, uiPc,
                   uiArg, nSessions, g, hist, yieldQ, direct>>

\* snapshot()/predict() from their first line to the end of train(), when
\* there is no generator yet; the worker is already queued when it returns
SendStart(c) ==
    /\ uiPc = "idle"
    /\ clicks < MaxClicks
    /\ clicks' = clicks + 1
    /\ uiErr' = ""
    /\ gen = 0
    /\ TrainBody
    /\ uiPc' = "send"
    /\ uiArg' = c
    /\ UNCHANGED <<lsdsBox, model, weightSrc, iterLabel, lossLabel, viewer, hist, yieldQ,
                   direct>>

\* the rest of snapshot()/predict(): send(value), resume(), enable_buttons()
SendRest ==
    /\ uiPc = "send"
    /\ w' = WResume(WSend(w, gen, uiArg), gen)
    /\ buttons' = enable_buttons(FALSE, TRUE, TRUE, TRUE, TRUE)
    /\ uiPc' = "idle"
    /\ uiArg' = NoCmd
    /\ UNCHANGED <<uiErr, lsdsBox, model, weightSrc, gen, iterLabel, lossLabel, viewer,
                   nSessions, g, hist, yieldQ, direct, clicks>>

\* snapshot()/predict() with a generator in place
SendNow(c) ==
    /\ uiPc = "idle"
    /\ clicks < MaxClicks
    /\ clicks' = clicks + 1
    /\ uiErr' = ""
    /\ gen # 0
    /\ w' = WResume(WSend(w, gen, c), gen)
    /\ buttons' = enable_buttons(FALSE, TRUE, TRUE, TRUE, TRUE)
    /\ UNCHANGED <<lsdsBox, model, weightSrc, gen, iterLabel, lossLabel, viewer, uiPc,
                   uiArg, nSessions, g, hist, yieldQ, direct>>

Snapshot ==
    /\ buttons.snapshot
    /\ (SendStart(SnapshotCmd) \/ SendNow(SnapshotCmd))

Predict ==
    /\ buttons.predict
    /\ \E c \in RawPayloads : (SendStart(c) \/ SendNow(c))
\* -------------------------------------------------------------- add_layers
\* a layer update that keeps the new array alone
Concatenate_Replace(old_data, new_data) == new_data

\* lines 306-312: np.concatenate([layer.data.reshape(-1, *sample_shape),
\* data.reshape(-1, *sample_shape)], axis=0), on the values in C order
Concatenate(old_data, new_data) == old_data \o new_data

\* an update that prepends "batch" every time
WithBatchLabel_Always(labels) == <<"batch">> \o labels

\* lines 315-317: make the first label "batch" if it is not
WithBatchLabel(labels) ==
    IF labels = <<>> \/ labels[1] # "batch" THEN <<"batch">> \o labels ELSE labels

\* one pass of the loop of add_layers over (data, metadata, layer_type)
AddLayer(v, a) ==
    LET disjoint == Range(v.labels) \cap Range(a.axes) = {}
        spatial == SelectSeq(a.axes, LAMBDA x : x \notin {"batch", "channel"})
        asserted == disjoint => Len(v.labels) - Len(spatial) <= 1
        labels1 == IF disjoint
                   THEN (IF Len(v.labels) > Len(spatial)
                         THEN <<"channels">> \o spatial ELSE spatial)
                   ELSE v.labels
        bpos == IF \E i \in DOMAIN a.axes : a.axes[i] = "batch"
                THEN CHOOSE i \in DOMAIN a.axes : a.axes[i] = "batch" ELSE 0
        sample_shape == SubSeq(a.shape, bpos + 1, Len(a.shape))
        old == v.layers[a.name]
        fits == Prod(old) % Prod(sample_shape) = 0
        joined == <<(Prod(old) \div Prod(sample_shape))
                    + (Prod(a.shape) \div Prod(sample_shape))>> \o sample_shape
        labels2 == WithBatchLabel(labels1)
    IN  IF ~asserted
        THEN [labels |-> v.labels, layers |-> v.layers, data |-> v.data, ok |-> FALSE]
        ELSE IF old = <<>>
        THEN [labels |-> labels1,
              layers |-> [v.layers EXCEPT ![a.name] = a.shape],
              data |-> [v.data EXCEPT ![a.name] = a.data], ok |-> TRUE]
        ELSE IF ~fits
        THEN [labels |-> labels1, layers |-> v.layers, data |-> v.data, ok |-> FALSE]
        ELSE [labels |-> labels2,
              layers |-> [v.layers EXCEPT ![a.name] = joined],
              data |-> [v.data EXCEPT ![a.name] = Concatenate(@, a.data)], ok |-> TRUE]

RECURSIVE add_layers(_, _)
add_layers(v, layers) ==
    IF layers = <<>>
    THEN [labels |-> v.labels, layers |-> v.layers, data |-> v.data, ok |-> TRUE]
    ELSE LET r == AddLayer(v, Head(layers))
         IN  IF r.ok THEN add_layers(r, Tail(layers)) ELSE r

\* on_yield(step_data), run by the UI thread for the oldest queued signal
OnYield ==
    /\ uiPc = "idle"
    /\ yieldQ # <<>>
    /\ LET res == Head(yieldQ).res
           r == IF Len(res.arrays) > 0 THEN add_layers(viewer, res.arrays)
                ELSE [labels |-> viewer.labels, layers |-> viewer.layers,
                      data |-> viewer.data, ok |-> TRUE]
           shown == r.ok /\ res.it # None_ /\ res.loss # None_
       IN  /\ viewer' = [labels |-> r.labels, layers |-> r.layers, data |-> r.data]
           /\ iterLabel' = IF shown THEN res.it ELSE iterLabel
           /\ lossLabel' = IF shown THEN res.loss ELSE lossLabel
    /\ yieldQ' = Tail(yieldQ)
    /\ UNCHANGED <<uiErr, lsdsBox, model, weightSrc, gen, buttons, uiPc, uiArg, nSessions, w, g,
                   hist, direct, clicks>>

\* ------------------------------------------------------- the worker's loop

\* top of work(): abort_requested
WorkerAbort(s) ==
    /\ w[s].st = "loop"
    /\ w[s].abort
    /\ w' = [w EXCEPT ![s].st = "finished"]
    /\ UNCHANGED <<uiErr, lsdsBox, model, weightSrc, gen, buttons, iterLabel, lossLabel, viewer,
                   uiPc, uiArg, nSessions, g, hist, yieldQ, direct, clicks>>

\* work(): a pause request takes effect
WorkerPause(s) ==
    /\ w[s].st = "loop"
    /\ ~w[s].abort
    /\ ~w[s].paused
    /\ w[s].pauseReq
    /\ w' = [w EXCEPT ![s].paused = TRUE, ![s].pauseReq = FALSE]
    /\ UNCHANGED <<uiErr, lsdsBox, model, weightSrc, gen, buttons, iterLabel, lossLabel, viewer,
                   uiPc, uiArg, nSessions, g, hist, yieldQ, direct, clicks>>

\* a loop that takes the next value whether paused or not
MayProceed_IgnorePause(ws) == TRUE

\* work(): a paused worker goes on only once a resume was requested, and one
\* that is not paused only while no pause is requested
MayProceed(ws) == IF ws.paused THEN ws.resumeReq ELSE ~ws.pauseReq

\* work(): (leave the pause and) take _next_value() and call gen.send(input);
\* a value other than None sent to a generator that has not started is a
\* TypeError raised by send() itself, and the generator does not run
WorkerNext(s) ==
    /\ w[s].st = "loop"
    /\ ~w[s].abort
    /\ MayProceed(w[s])
    /\ hist[s].n <= MaxSteps
    /\ LET input == w[s].incoming
           taken == [w[s] EXCEPT !.paused = FALSE, !.resumeReq = FALSE,
                                 !.incoming = NoCmd]
       IN  IF g[s].pc = "unstarted" /\ input # NoCmd
           THEN /\ w' = [w EXCEPT ![s] = [taken EXCEPT !.st = "finished"]]
                /\ hist' = [hist EXCEPT ![s] = Record(@, Step(input, "TypeError", NullRes))]
           ELSE /\ w' = [w EXCEPT ![s] = [taken EXCEPT !.st = "step", !.cur = input]]
                /\ UNCHANGED hist
    /\ UNCHANGED <<uiErr, lsdsBox, model, weightSrc, gen, buttons, iterLabel, lossLabel, viewer,
                   uiPc, uiArg, nSessions, g, yieldQ, direct, clicks>>

\* the generator suspends at a yield and the worker emits `yielded`
Emits(s, cmd, gs, res) ==
    /\ Len(yieldQ) < MaxQueue
    /\ g' = [g EXCEPT ![s] = gs]
    /\ w' = [w EXCEPT ![s].st = "loop"]
    /\ hist' = [hist EXCEPT ![s] = Record(@, Step(cmd, "", res))]
    /\ yieldQ' = Append(yieldQ, [s |-> s, res |-> res])

\* a with block that releases nothing on the way out
LeaveWith_Leak(gs) == gs

\* line 353: control leaves `with self.build_pipeline(...)`, by an exception
\* or by the generator being closed, and the pipeline scope is closed
LeaveWith(gs) == [gs EXCEPT !.closes = @ + 1]

\* an exception leaves the generator (through the with block when `inWith`)
\* and ends the worker
Raises(s, gs, err, inWith) ==
    /\ g' = [g EXCEPT ![s] = [(IF inWith THEN LeaveWith(gs) ELSE gs)
                                 EXCEPT !.pc = "dead"]]
    /\ w' = [w EXCEPT ![s].st = "finished"]
    /\ hist' = [hist EXCEPT ![s] = Record(@, Step(w[s].cur, err, NullRes))]
    /\ UNCHANGED yieldQ
\* ------------------------------------------------------- train_affinities
\* a dispatch whose last branch trains instead of raising
Classify_Lenient(mode) ==
    IF mode.k = "array"
    THEN [predict |-> TRUE, snapshot_iteration |-> FALSE, known |-> TRUE]
    ELSE [predict |-> FALSE, snapshot_iteration |-> mode.k = "snapshot", known |-> TRUE]

\* lines 358-365: what the value received at the yield selects
Classify(mode) ==
    IF mode.k = "none" \/ mode.k = "snapshot"
    THEN [predict |-> FALSE, snapshot_iteration |-> mode.k # "none", known |-> TRUE]
    ELSE IF mode.k = "array"
    THEN [predict |-> TRUE, snapshot_iteration |-> FALSE, known |-> TRUE]
    ELSE [predict |-> FALSE, snapshot_iteration |-> FALSE, known |-> FALSE]

\* the check of line 330 left out
MissingModel_Unchecked(m) == FALSE

\* line 330: self.model is None
MissingModel(m) == m = 0

\* lines 354-356: the first yield
PrimingResult == [it |-> 0, loss |-> NaN, arrays |-> <<>>]

\* a total that adds the two losses
TotalLoss_Sum(lsds, aff_loss, lsd_loss) == IF lsds THEN aff_loss + lsd_loss ELSE aff_loss

\* lines 432-450: the loss of one training step
TotalLoss(lsds, aff_loss, lsd_loss) == IF lsds THEN aff_loss * lsd_loss ELSE aff_loss

\* a step that loses its increment
NextIteration_Stuck(iteration) == iteration

\* line 454
NextIteration(iteration) == iteration + 1

\* lines 456-486: the predictions a snapshot step attaches
PredArrays(lsds, ndim, noff) ==
    LET ax == <<"batch", "channel">> \o SpatialAxes(ndim)
    IN  <<Arr("sample_aff_pred", "image", ax, <<BatchSize, noff>> \o Spatial(ndim))>>
        \o (IF lsds THEN <<Arr("sample_lsd_pred", "image", ax,
                               <<BatchSize, 1>> \o Spatial(ndim))>>
                    ELSE <<>>)

\* a snapshot step that yields progress alone
TrainResult_Plain(snapshot_iteration, iteration, loss, lsds, ndim, noff) ==
    [it |-> iteration, loss |-> loss, arrays |-> <<>>]

\* lines 456-495: the yield of a training step
TrainResult(snapshot_iteration, iteration, loss, lsds, ndim, noff) ==
    IF snapshot_iteration
    THEN [it |-> iteration, loss |-> loss,
          arrays |-> PipelineArrays(lsds, ndim, noff)
                     \o SnapshotArrays(snapshot_iteration, ndim)
                     \o PredArrays(lsds, ndim, noff)]
    ELSE [it |-> iteration, loss |-> loss, arrays |-> <<>>]

\* a step that yields whatever the network returned
ShapesAsExpected_Unchecked(pred_shape, affs_shape, ndim, noff) == TRUE

\* lines 393-402: the three assertions
ShapesAsExpected(pred_shape, affs_shape, ndim, noff) ==
    /\ Len(pred_shape) = ndim
    /\ Len(affs_shape) = ndim + 1
    /\ affs_shape[1] = noff

\* an inference yield that reports a loss with no iteration
InferResult_HalfProgress(affs_shape, ndim) ==
    [it |-> None_, loss |-> NaN,
     arrays |-> <<Arr("Affinities", "image", <<"channel">> \o SpatialAxes(ndim),
                      affs_shape)>>]

\* lines 405-420: the yield of an inference step
InferResult(affs_shape, ndim) ==
    [it |-> None_, loss |-> None_,
     arrays |-> <<Arr("Affinities", "image", <<"channel">> \o SpatialAxes(ndim),
                      affs_shape)>>]

\* lines 329-356: the first send(None) runs the generator to its first yield
StepStart(s) ==
    /\ w[s].st = "step"
    /\ g[s].pc = "unstarted"
    /\ IF MissingModel(model)
       THEN Raises(s, g[s], "MissingModel", FALSE)
       ELSE Emits(s, StartCmd,
                  [g[s] EXCEPT !.pc = "suspended", !.mdl = model,
                               !.opens = @ + 1, !.iteration = 0, !.loss = NaN],
                  PrimingResult)
    /\ UNCHANGED <<uiErr, lsdsBox, model, weightSrc, gen, buttons, iterLabel, lossLabel, viewer,
                   uiPc, uiArg, nSessions, direct, clicks>>

\* lines 421-495: a training step, with or without a snapshot
StepTrain(s) ==
    /\ w[s].st = "step"
    /\ g[s].pc = "suspended"
    /\ Classify(w[s].cur).known
    /\ ~Classify(w[s].cur).predict
    /\ LET flag == Classify(w[s].cur).snapshot_iteration
           cfg == ModelCfg(g[s].mdl)
       IN  \E ok \in BOOLEAN, aff_loss \in AffLosses, lsd_loss \in LsdLosses :
             IF ok
             THEN LET loss == TotalLoss(g[s].lsds, aff_loss, lsd_loss)
                      it == NextIteration(g[s].iteration)
                  IN  Emits(s, w[s].cur,
                            [g[s] EXCEPT !.iteration = it, !.loss = loss,
                                         !.pulls = @ + 1,
                                         !.snapshot_iteration = flag],
                            TrainResult(flag, it, loss, g[s].lsds, cfg.ndim, cfg.noff))
             ELSE Raises(s, [g[s] EXCEPT !.pulls = @ + 1, !.snapshot_iteration = flag],
                         "PipelineError", TRUE)
    /\ UNCHANGED <<uiErr, lsdsBox, model, weightSrc, gen, buttons, iterLabel, lossLabel, viewer,
                   uiPc, uiArg, nSessions, direct, clicks>>

\* lines 367-370: checkpoint the weights and rebind the model's weight source
StepCheckpoint(s) ==
    /\ w[s].st = "step"
    /\ g[s].pc = "suspended"
    /\ Classify(w[s].cur).known
    /\ Classify(w[s].cur).predict
    /\ weightSrc' = g[s].iteration
    /\ g' = [g EXCEPT ![s].pc = "infer"]
    /\ UNCHANGED <<uiErr, lsdsBox, model, gen, buttons, iterLabel, lossLabel, viewer, uiPc, uiArg,
                   nSessions, w, hist, yieldQ, direct, clicks>>

\* lines 378-420: the forward pass on self.model, the assertions, the yield
StepForward(s) ==
    /\ w[s].st = "step"
    /\ g[s].pc = "infer"
    /\ LET cfg == ModelCfg(g[s].mdl)
           now == ModelCfg(model)
           batched == <<1>> \o w[s].cur.shape
       IN  IF Len(batched) # Len(now.inAxes)
           THEN Raises(s, g[s], "DimsError", TRUE)
           ELSE \E out \in OutShapes(now) :
                  IF ShapesAsExpected(Squeeze(batched), Squeeze(out),
                                           cfg.ndim, cfg.noff)
                  THEN Emits(s, w[s].cur, [g[s] EXCEPT !.pc = "suspended"],
                             InferResult(Squeeze(out), cfg.ndim))
                  ELSE Raises(s, g[s], "ShapeMismatch", TRUE)
    /\ UNCHANGED <<uiErr, lsdsBox, model, weightSrc, gen, buttons, iterLabel, lossLabel, viewer,
                   uiPc, uiArg, nSessions, direct, clicks>>

\* line 365: raise Exception(f"Uknown mode: {mode}")
StepUnknown(s) ==
    /\ w[s].st = "step"
    /\ g[s].pc = "suspended"
    /\ ~Classify(w[s].cur).known
    /\ Raises(s, g[s], "UnsupportedCommand", TRUE)
    /\ UNCHANGED <<uiErr, lsdsBox, model, weightSrc, gen, buttons, iterLabel, lossLabel, viewer,
                   uiPc, uiArg, nSessions, direct, clicks>>

\* a finished worker the widget no longer refers to is released, and its
\* generator with it: a generator suspended inside the with block is closed,
\* which leaves the block. Nothing of the session is left but the count of
\* what it opened and closed.
Finalize(s) ==
    /\ w[s].st = "finished"
    /\ gen # s
    /\ g[s].pc \in {"unstarted", "suspended", "dead"}
    /\ LET gs == IF g[s].pc = "suspended" THEN LeaveWith(g[s]) ELSE g[s]
       IN  g' = [g EXCEPT ![s] = [NewGen EXCEPT !.pc = "closed", !.opens = gs.opens,
                                                !.closes = gs.closes]]
    /\ w' = [w EXCEPT ![s] = [NewWorker EXCEPT !.st = "finished", !.abort = w[s].abort]]
    /\ hist' = [hist EXCEPT ![s] = NoHist]
    /\ UNCHANGED <<uiErr, lsdsBox, model, weightSrc, gen, buttons, iterLabel, lossLabel, viewer,
                   uiPc, uiArg, nSessions, yieldQ, direct, clicks>>

\* ------------------------------------------------------------------ Next
Next ==
    \/ \E src \in Sources : LoadModel(src)
    \/ \E src \in Sources : LoadModelFails(src)
    \/ \E viaButton \in BOOLEAN : Train(viaButton)
    \/ TickLsds
    \/ PauseTraining
    \/ Snapshot
    \/ Predict
    \/ SendRest
    \/ OnYield
    \/ \E s \in Sessions : WorkerAbort(s)
    \/ \E s \in Sessions : WorkerPause(s)
    \/ \E s \in Sessions : WorkerNext(s)
    \/ \E s \in Sessions : StepStart(s)
    \/ \E s \in Sessions : StepTrain(s)
    \/ \E s \in Sessions : StepCheckpoint(s)
    \/ \E s \in Sessions : StepForward(s)
    \/ \E s \in Sessions : StepUnknown(s)
    \/ \E s \in Sessions : Finalize(s)

Spec == Init /\ [][Next]_vars

\* ------------------------------------------- on_yield and add_layers alone
\* The viewer the user may have before the first array arrives (two, three
\* or four numeric axis labels, no layer of the name), and a run of arrays of
\* one name handed to on_yield one after the other. The values of the arrays
\* are numbered 1, 2, 3, ... in emission order and in C order.
SinkLabels == {<<"0", "1">>, <<"0", "1", "2">>, <<"0", "1", "2", "3">>}
SinkAxes == {<<"batch", "y", "x">>, <<"batch", "channel", "y", "x">>, <<"channel", "y", "x">>}
SinkName(axes) ==
    IF axes = <<"batch", "y", "x">> THEN "raw"
    ELSE IF axes[1] = "batch" THEN "sample_aff_pred" ELSE "Affinities"
\* the shape of one sample: two channels where there is a channel axis
SinkSample(axes) ==
    (IF "channel" \in Range(axes) THEN <<2>> ELSE <<>>) \o Spatial(2)

RECURSIVE SumSeq(_)
SumSeq(q) == IF q = <<>> THEN 0 ELSE Head(q) + SumSeq(Tail(q))

SinkEmissions(axes, bs) ==
    LET batched == axes[1] = "batch"
        shape(i) == IF batched THEN <<bs[i]>> \o SinkSample(axes) ELSE SinkSample(axes)
        size(i) == Prod(shape(i))
        start(i) == SumSeq([j \in 1..(i - 1) |-> size(j)])
    IN  [i \in 1..Len(bs) |->
            [s |-> 1,
             res |-> [it |-> None_, loss |-> None_,
                      arrays |-> <<ArrD(SinkName(axes), "image", axes, shape(i),
                                        [e \in 1..size(i) |-> start(i) + e])>>]]]

SinkInit ==
    /\ model = 0
    /\ weightSrc = OrigWeights
    /\ gen = 0
    /\ buttons = InitialButtons
    /\ lsdsBox = FALSE
    /\ iterLabel = None_
    /\ lossLabel = NaN
    /\ uiPc = "idle"
    /\ uiArg = NoCmd
    /\ nSessions = 0
    /\ w = [s \in Sessions |-> NewWorker]
    /\ g = [s \in Sessions |-> NewGen]
    /\ hist = [s \in Sessions |-> NoHist]
    /\ direct = FALSE
    /\ clicks = 0
    /\ uiErr = ""
    /\ \E labels \in SinkLabels, axes \in SinkAxes, k \in 1..MaxEmissions :
         \E bs \in [1..k -> 1..MaxBatch] :
            /\ viewer = EmptyViewer(labels)
            /\ yieldQ = SinkEmissions(axes, bs)

SinkNext == OnYield

SinkSpec == SinkInit /\ [][SinkNext]_vars
\* ================================================================ claims
Finished(s) == hist[s].n > 0
Yielded(s) == Finished(s) /\ hist[s].last.err = ""
Names(arrays) == {arrays[i].name : i \in DOMAIN arrays}

\* C1: within a session the iteration counter starts at 0 and always equals
\* the number of finished training and snapshot steps; the steps that
\* counted report it in their result and an inference step leaves it alone.
C1_IterationCountsTrainingSteps ==
    \A s \in Sessions :
        /\ g[s].iteration = hist[s].trained
        /\ hist[s].n <= 1 => g[s].iteration = 0
        /\ (Yielded(s) /\ hist[s].last.cmd.k \in {"none", "snapshot"})
               => hist[s].last.res.it = g[s].iteration

\* an inference step finished after a training step and iteration stayed
C1_Witness ==
    \E s \in Sessions :
        /\ Yielded(s)
        /\ hist[s].last.cmd.k = "array"
        /\ g[s].iteration = 1

\* C2: a step resumed with "snapshot" yields progress (the iteration, one
\* more than before, never reset) plus named arrays, "sample_aff_pred" among
\* them; the flag does not persist: a step resumed with None yields exactly
\* (iteration, loss), also right after a snapshot step.
C2_SnapshotOnlyChangesEmission ==
    \A s \in Sessions :
        /\ (Yielded(s) /\ hist[s].last.cmd.k = "snapshot")
               => /\ Len(hist[s].last.res.arrays) > 0
                  /\ "sample_aff_pred" \in Names(hist[s].last.res.arrays)
                  /\ hist[s].last.res.it = hist[s].trained
                  /\ hist[s].last.res.it >= 1
                  /\ g[s].snapshot_iteration
        /\ (Yielded(s) /\ hist[s].last.cmd.k = "none")
               => /\ hist[s].last.res.arrays = <<>>
                  /\ hist[s].last.res.it = hist[s].trained
                  /\ hist[s].last.res.loss = g[s].loss
                  /\ ~g[s].snapshot_iteration

\* a plain training step has finished right after a snapshot step
C2_Witness ==
    \E s \in Sessions :
        /\ Yielded(s)
        /\ hist[s].before = "snapshot"
        /\ hist[s].last.cmd.k = "none"
        /\ hist[s].last.res.it = 2
        /\ hist[s].last.res.arrays = <<>>
\* C3: every command reaches the generator at a resumption after the priming
\* yield: no session ends with the TypeError that send() raises when its
\* first value, given to the generator before it has started, is not None.
C3_CommandsArriveAfterPriming ==
    \A s \in Sessions : ~(Finished(s) /\ hist[s].last.err = "TypeError")

\* C4: no command sent with snapshot() or predict() is lost: send() never
\* replaces a value that no step has taken yet.
C4_NoCommandOverwritten ==
    \A s \in Sessions : ~w[s].overwritten

\* C5: the value a suspended generator is resumed with selects the step: None
\* a training step with the snapshot flag false, "snapshot" one with the flag
\* true, an array an inference step (no batch pulled, iteration unchanged);
\* anything else raises and pulls no batch, changes no iteration and
\* yields nothing.
C5_CommandClassification ==
    [][\A s \in Sessions :
         (hist'[s].n = hist[s].n + 1 /\ g[s].pc \in {"suspended", "infer"})
         => LET step == hist'[s].last
            IN  /\ step.cmd.k = "none"
                     => /\ step.err \in {"", "PipelineError"}
                        /\ ~g'[s].snapshot_iteration
                        /\ g'[s].pulls = g[s].pulls + 1
                        /\ step.err = "" => /\ g'[s].iteration = g[s].iteration + 1
                                            /\ step.res.arrays = <<>>
                /\ step.cmd.k = "snapshot"
                     => /\ step.err \in {"", "PipelineError"}
                        /\ g'[s].snapshot_iteration
                        /\ g'[s].pulls = g[s].pulls + 1
                        /\ step.err = "" => /\ g'[s].iteration = g[s].iteration + 1
                                            /\ step.res.arrays # <<>>
                /\ step.cmd.k = "array"
                     => /\ step.err \in {"", "DimsError", "ShapeMismatch"}
                        /\ g'[s].pulls = g[s].pulls
                        /\ g'[s].iteration = g[s].iteration
                        /\ step.err = "" => "Affinities" \in Names(step.res.arrays)
                /\ step.cmd.k = "other"
                     => /\ step.err = "UnsupportedCommand"
                        /\ g'[s].pulls = g[s].pulls
                        /\ g'[s].iteration = g[s].iteration
                        /\ yieldQ' = yieldQ
                /\ step.cmd.k \in {"none", "snapshot", "array", "other"}
      ]_vars

\* a session that had trained was resumed with an unsupported value and raised
C5_Witness ==
    \E s \in Sessions :
        /\ Finished(s)
        /\ hist[s].last.cmd.k = "other"
        /\ hist[s].last.err = "UnsupportedCommand"
        /\ g[s].iteration = 1
        /\ g[s].pulls = 1

\* C6: an inference step whose input has a number of dimensions other than
\* ndim fails and yields no result.
C6_WrongRankAlwaysFails ==
    \A s \in Sessions :
        (Finished(s) /\ hist[s].last.cmd.k = "array"
           /\ Len(hist[s].last.cmd.shape) # ModelCfg(g[s].mdl).ndim)
        => hist[s].last.err # ""

\* C7: a ShapeMismatch aborts only its step: the generator is suspended
\* again, awaiting the next command, and its worker goes on.
C7_ShapeMismatchKeepsSession ==
    \A s \in Sessions :
        (Finished(s) /\ hist[s].last.err = "ShapeMismatch")
        => (g[s].pc = "suspended" /\ w[s].st # "finished")

\* C8 (safety part): a session opens its pipeline scope at most once, only
\* by starting, and never closes more than it opened; a generator that has
\* ended, by an exception or by being closed, has closed what it opened.
PipelineScopeInv ==
    \A s \in Sessions :
        /\ g[s].opens <= 1
        /\ g[s].closes <= g[s].opens
        /\ g[s].pc \in {"none", "unstarted"} => g[s].opens = 0
        /\ g[s].pc \in {"suspended", "infer"} => (g[s].opens = 1 /\ g[s].closes = 0)
        /\ g[s].pc \in {"dead", "closed"} => g[s].closes = g[s].opens

C9_MissingModelFailsFast ==
    \A s \in Sessions :
        (Finished(s) /\ hist[s].last.err # "TypeError" /\ g[s].mdl = 0)
        => /\ hist[s].last.err = "MissingModel"
           /\ hist[s].n = 1
           /\ g[s].pc = "dead"
           /\ g[s].opens = 0
           /\ \A i \in DOMAIN yieldQ : yieldQ[i].s # s

\* a session was started with no model loaded and has raised
C9_Witness ==
    \E s \in Sessions :
        /\ Finished(s)
        /\ hist[s].last.err = "MissingModel"
        /\ model = 0

\* the shape of a result tuple, given the command of the step that yielded it
WellFormed(k, res) ==
    /\ (res.it = None_) <=> (res.loss = None_)
    /\ k \in {"start", "none"} => (res.arrays = <<>> /\ res.it # None_)
    /\ res.arrays # <<>>
         => \/ k = "snapshot" /\ res.it # None_ /\ res.loss # None_
            \/ k = "array" /\ res.it = None_ /\ res.loss = None_

\* C10: in every result tuple iteration and loss are both present or both
\* None; the priming and plain training yields carry no named arrays; named
\* arrays come only with a snapshot yield (progress present) or an inference
\* yield (progress None).
C10_ResultTupleShape ==
    /\ \A s \in Sessions : Yielded(s) => WellFormed(hist[s].last.cmd.k, hist[s].last.res)
    /\ \A i \in DOMAIN yieldQ :
         /\ (yieldQ[i].res.it = None_) <=> (yieldQ[i].res.loss = None_)
         /\ yieldQ[i].res.arrays # <<>>
              => (yieldQ[i].res.it = None_
                    <=> Names(yieldQ[i].res.arrays) = {"Affinities"})

\* an inference result is queued for the UI in a session that has a
\* snapshot step behind it
C10_Witness ==
    \E s \in Sessions :
        /\ Yielded(s)
        /\ hist[s].last.cmd.k = "array"
        /\ hist[s].before = "snapshot"
        /\ \E i \in DOMAIN yieldQ : yieldQ[i].s = s /\ yieldQ[i].res.it = None_

\* C11: every inference yield carries exactly one named array: "Affinities",
\* an image with axes (channel, *spatial_axes), spatial_axes the last ndim of
\* [time, z, y, x]; its leading dimension is len(offsets) and it has
\* ndim + 1 dimensions, ndim and offsets being those the session read when
\* it started.
C11_InferenceEmitsAffinities ==
    \A s \in Sessions :
        (Yielded(s) /\ hist[s].last.cmd.k = "array")
        => LET cfg == ModelCfg(g[s].mdl)
               res == hist[s].last.res
           IN  /\ Len(res.arrays) = 1
               /\ res.arrays[1].name = "Affinities"
               /\ res.arrays[1].kind = "image"
               /\ res.arrays[1].axes = <<"channel">> \o LastN(<<"time", "z", "y", "x">>, cfg.ndim)
               /\ res.arrays[1].shape[1] = cfg.noff
               /\ Len(res.arrays[1].shape) = cfg.ndim + 1

\* a session of the three-dimensional model has yielded an inference result
C11_Witness ==
    \E s \in Sessions :
        /\ Yielded(s)
        /\ hist[s].last.cmd.k = "array"
        /\ g[s].mdl = 2
        /\ hist[s].last.res.arrays[1].shape = <<2, 2, 2, 2>>

\* the values of the arrays named n that wait in the queue, in queue order
RECURSIVE QueueData(_, _)
QueueData(q, n) ==
    IF q = <<>> THEN <<>>
    ELSE (IF Head(q).res.arrays[1].name = n THEN Head(q).res.arrays[1].data ELSE <<>>)
         \o QueueData(Tail(q), n)

Counted(seq) == \A i \in DOMAIN seq : seq[i] = i

\* the layer "raw" holds what was emitted so far, in emission order, as one
\* array of shape (b1 + ... + bk, y, x)
SinkConcatenated ==
    /\ Counted(viewer.data["raw"] \o QueueData(yieldQ, "raw"))
    /\ viewer.layers["raw"] =
          IF viewer.data["raw"] = <<>> THEN <<>>
          ELSE <<Len(viewer.data["raw"]) \div Prod(Spatial(2))>> \o Spatial(2)

\* the assertion of lines 288-290 holds for an array with axes (batch, y, x)
SinkAccepts ==
    Range(viewer.labels) \cap {"batch", "y", "x"} = {} => Len(viewer.labels) - 2 <= 1

\* C12 as stated: for every run of arrays of one name with axes
\* (batch, y, x) and batch sizes b1..bk, whatever the viewer, the first
\* creates the layer and each later one is concatenated to it in emission
\* order, so that the layer ends with batch dimension b1 + ... + bk.
C12_AnyViewerConcatenates == SinkConcatenated

\* C12: the same, for a viewer whose axis labels pass the assertion of
\* lines 288-290 (at most one label more than the array has spatial axes
\* while they share no name with the array's axes).
C12_SinkConcatenates == SinkAccepts => SinkConcatenated

\* batch sizes adding up to 5 were handed over and the layer holds them all
C12_Witness ==
    /\ yieldQ = <<>>
    /\ viewer.layers["raw"] = <<5, 2, 2>>
    /\ Len(viewer.data["raw"]) = 20
    /\ viewer.labels = <<"batch", "y", "x">>

\* C13: a pause does not interrupt a step. Pressing Pause changes nothing of
\* the generator, of the step in progress or of the queued results; the pause
\* takes effect only between two steps; a step in progress is left only by
\* finishing it, and what it yields is queued for the UI. While a worker is
\* paused and no resume is requested no step starts and its iteration stays;
\* a resume is requested only by train(), snapshot() or predict(), on a
\* paused worker.
C13_PauseBetweenSteps ==
    [][\A s \in Sessions :
         /\ (~w[s].pauseReq /\ w'[s].pauseReq)
              => /\ w'[s].st = w[s].st /\ w'[s].cur = w[s].cur
                 /\ g'[s] = g[s] /\ hist'[s] = hist[s] /\ yieldQ' = yieldQ
         /\ (~w[s].paused /\ w'[s].paused)
              => /\ w[s].st = "loop" /\ w'[s].st = "loop"
                 /\ g'[s] = g[s] /\ hist'[s] = hist[s] /\ yieldQ' = yieldQ
         /\ (w[s].st = "step" /\ w'[s].st # "step")
              => /\ hist'[s].n = hist[s].n + 1
                 /\ hist'[s].last.err = ""
                      => yieldQ' = Append(yieldQ, [s |-> s, res |-> hist'[s].last.res])
         /\ (w[s].paused /\ ~w[s].resumeReq)
              => /\ w'[s].st # "step"
                 /\ hist'[s].n <= hist[s].n
                 /\ g'[s].iteration = g[s].iteration \/ g'[s].pc = "closed"
         /\ (~w[s].resumeReq /\ w'[s].resumeReq)
              => /\ w[s].paused /\ gen = s
                 /\ clicks' = clicks + 1 \/ uiPc = "send"
                 /\ buttons'.pause
      ]_vars

\* Pause was pressed while a training step is running
C13_Witness ==
    \E s \in Sessions :
        /\ w[s].st = "step"
        /\ w[s].pauseReq
        /\ g[s].pc = "suspended"
        /\ buttons.train

\* C14: a step of a session never works on a model other than the one the
\* session was started for: a generator that has rebound the weight source
\* and is about to run the forward pass on self.model belongs to the session
\* the widget holds, and self.model is the model it read when it started.
C14_OldSessionNeverMeetsNewModel ==
    \A s \in Sessions :
        (w[s].st = "step" /\ g[s].pc = "infer") => (gen = s /\ model = g[s].mdl)

\* C15: a load that fails installs nothing and changes nothing: the model is
\* always None or one a load returned, and the callback that ends with
\* ModelLoadError leaves the model, the session, its worker and generator,
\* the displays and every button's enabled flag as they were; with no model
\* loaded before, every button is still disabled.
C15_FailedLoadChangesNothing ==
    /\ [](model \in Models \cup {0})
    /\ []((uiErr = "ModelLoadError" /\ model = 0 /\ ~direct)
            => buttons = enable_buttons(FALSE, FALSE, FALSE, FALSE, FALSE))
    /\ [][(uiErr' = "ModelLoadError" /\ clicks' # clicks)
            => /\ model' = model /\ weightSrc' = weightSrc
               /\ gen' = gen /\ w' = w /\ g' = g
               /\ buttons' = buttons
               /\ iterLabel' = iterLabel /\ lossLabel' = lossLabel
       ]_vars

\* a load has failed while a session was training: model, session and
\* buttons are those of the session
C15_Witness ==
    /\ uiErr = "ModelLoadError"
    /\ model # 0
    /\ gen # 0
    /\ w[gen].st = "step"
    /\ buttons = enable_buttons(FALSE, TRUE, TRUE, TRUE, TRUE)

\* C16: the loss a training step yields and keeps is the product of the
\* masked affinity loss and the masked descriptor loss when the session was
\* started with LSDs ticked (2 and 3 give 6), and the affinity loss alone
\* when it was not.
C16_LossIsProductWithLsds ==
    \A s \in Sessions :
        (Yielded(s) /\ hist[s].last.cmd.k \in {"none", "snapshot"})
        => /\ hist[s].last.res.loss = g[s].loss
           /\ g[s].lsds => g[s].loss \in {a * l : a \in AffLosses, l \in LsdLosses}
           /\ ~g[s].lsds => g[s].loss \in AffLosses

\* a session with LSDs has trained a step and the display shows the product
C16_Witness ==
    \E s \in Sessions :
        /\ Yielded(s)
        /\ g[s].lsds
        /\ hist[s].last.res.loss = 6
        /\ lossLabel = 6

\* C17: between the rebinding of the weight source and the forward pass of
\* an inference step the weight source is the checkpoint keyed by the
\* session's iteration, which is the number of its finished training steps:
\* the forward pass reads the weights those steps produced.
C17_ForwardReadsLatestCheckpoint ==
    \A s \in Sessions :
        (w[s].st = "step" /\ g[s].pc = "infer")
        => (weightSrc = g[s].iteration /\ g[s].iteration = hist[s].trained)

\* the array an on_yield step is about to hand to add_layers
SinkHead == Head(yieldQ).res.arrays[1]
\* lines 298-299: sample_shape of an array
SampleShape(a) == IF a.axes[1] = "batch" THEN Tail(a.shape) ELSE a.shape

\* C18: under repeated emissions of one named array the viewer state other
\* than the batch dimension settles: "batch" is among the axis labels at
\* most once and no label is repeated; labels that share a name with the
\* array's axes are kept, with "batch" put in front once; when the layer
\* exists and "batch" is in front already the labels stay as they are; and
\* the layer keeps the sample shape of the array, channel dimension
\* included, after every emission.
C18_ReconciliationIdempotent ==
    /\ [](\A i, j \in DOMAIN viewer.labels : viewer.labels[i] = viewer.labels[j] => i = j)
    /\ [][LET a == SinkHead
              old == viewer.layers[a.name]
              new == viewer'.layers[a.name]
          IN  /\ Range(viewer.labels) \cap Range(a.axes) # {}
                   => viewer'.labels \in {viewer.labels, <<"batch">> \o viewer.labels}
              /\ (old # <<>> /\ viewer.labels[1] = "batch")
                   => viewer'.labels = viewer.labels
              /\ new # <<>> => LastN(new, Len(SampleShape(a))) = SampleShape(a)
              /\ old # <<>> => /\ Len(new) = Len(SampleShape(a)) + 1
                               /\ new[1] * Prod(SampleShape(a)) = Prod(old) + Prod(a.shape)
       ]_vars

\* the same (channel, y, x) array was handed over three times: one layer
\* with three samples, and "batch" in front of the spatial labels once
C18_Witness ==
    /\ yieldQ = <<>>
    /\ viewer.layers["Affinities"] = <<3, 2, 2, 2>>
    /\ viewer.labels = <<"batch", "y", "x">>

\* C19: the Pause button is enabled only while the widget holds a training
\* generator, so pause_training() never finds None; a model load leaves
\* Pause disabled.
C19_PauseOnlyWithSession ==
    /\ buttons.pause => gen # 0
    /\ uiErr # "AttributeError"
    /\ gen # 0 => w[gen].st # "none"

\* a model was loaded over a running session: no generator, Pause disabled
C19_Witness ==
    /\ gen = 0
    /\ ~buttons.pause
    /\ buttons.train
    /\ \E s \in Sessions : w[s].abort

\* C20: as long as train() is called by the buttons alone, Train, Snapshot,
\* Predict and Save are enabled only with a model loaded, a session exists
\* only with a model loaded, and no generator raises MissingModel.
C20_ControlsNeedModel ==
    ~direct
    => /\ (buttons.train \/ buttons.snapshot \/ buttons.predict \/ buttons.save)
            => model # 0
       /\ nSessions > 0 => model # 0
       /\ \A s \in Sessions : ~(Finished(s) /\ hist[s].last.err = "MissingModel")
       /\ \A s \in Sessions : g[s].pc \in {"suspended", "infer", "dead"} => g[s].mdl # 0

\* after a failed load and with no model the buttons could start nothing
C20_Witness ==
    /\ ~direct
    /\ model = 0
    /\ uiErr = "ModelLoadError"
    /\ clicks = MaxClicks
    /\ buttons = enable_buttons(FALSE, FALSE, FALSE, FALSE, FALSE)

\* C21: nothing a torn-down session yielded reaches the widget: while the
\* widget holds no training generator, that is from reset_training_state
\* until the next session is started, the iteration and loss displays read
\* "None" and "nan".
C21_TornDownSessionIsSilent ==
    gen = 0 => (iterLabel = None_ /\ lossLabel = NaN)
====
